---- MODULE Spec2Model ----
(***************************************************************************)
(* Heimdall session manager (github.com/aadithya-v/heimdall).              *)
(*                                                                         *)
(* The manager (heimdall.go) composes a SessionStore and an                *)
(* InvalidationCache.  The store backends are MemorySessionStore,          *)
(* SQLiteStore and MySQLStore; the cache backends are MemoryCache,         *)
(* SQLiteStore (the same object as the store) and RedisCache.              *)
(*                                                                         *)
(* Time is counted in ticks; TicksPerSecond ticks make one second, so a    *)
(* time.Duration below one second is representable and the conversion      *)
(* int64(d.Seconds()) is a real truncation.  The calls are made at whole    *)
(* seconds: the clock is read at 0, Second, 2 * Second, ...                *)
(***************************************************************************)
EXTENDS Integers, Sequences, FiniteSets, TLC

\* ------------------------------------------------------------------ bounds
MaxSeconds == 1
MaxLimit == 1
TicksPerSecond == 2

\* ------------------------------------------------------- program constants
DefaultTTLHours == 24
DefaultThresholdKM == 100
earthRadiusKM == 6371

Users == {"u1", "u2"}
Ids == {"s1", "s2", "s3"}
Procs == {"p1", "p2", "p3"}

\* The session ids the callers of the sequential specification use.
SeqIds == {"s1", "s2"}

NULL == -1
NoUser == ""

\* invalidated_at is only ever tested for NULL; a set value is kept as Stamp.
Stamp == 0

\* One second and the 24 hour default of DefaultConfig, in ticks.
Second == TicksPerSecond
\* A distance in kilometres is kept as its count of metres (three decimals).
DefaultConfig == [SessionTTL |-> DefaultTTLHours * 3600 * Second,
                  InvalidationTTL |-> DefaultTTLHours * 3600 * Second,
                  NewLocationThresholdKM |-> DefaultThresholdKM * 1000]

\* Config values a caller may pass to New (0 = field left unset).
CfgSessionTTLs == {0, 1, Second}
CfgInvalidationTTLs == {0, Second}

\* The SessionStore / InvalidationCache pairs a caller may pass to New
\* ("nil" = field left unset).
CfgBackends == {<<"nil", "nil">>, <<"memory", "memory">>,
                <<"mysql", "redis">>, <<"memory", "nil">>}

\* Config.NewLocationThresholdKM values a caller may pass (0 = unset).
CfgThresholds == {0, 50 * 1000}

\* The wirings of the specification of the location check.
LocBackends == {<<"nil", "nil">>, <<"memory", "memory">>, <<"mysql", "redis">>}

\* DeviceInfo and LocationInfo values a caller may pass to RegisterSession;
\* of DeviceInfo only the IP is kept, the other fields are stored and
\* returned the same way.  A coordinate is kept as its count of tenths of a
\* degree (one decimal).  Device0 and Loc0 are what the callers of the
\* specifications without location pass.
Device0 == [IP |-> "ip1"]
Loc0 == [IP |-> "ip1", City |-> "c1", Country |-> "k1",
         Latitude |-> 10, Longitude |-> 0]

\* The <<device, location>> pairs of the specification of the location
\* check: the second has a device IP that is not the location IP, the third
\* a location without coordinates.
Requests ==
    {<<Device0, Loc0>>,
     <<[IP |-> "ip9"], [IP |-> "ip2", City |-> "c2", Country |-> "k1",
                        Latitude |-> 15, Longitude |-> 0]>>,
     <<Device0, [IP |-> "ip1", City |-> "c1", Country |-> "k1",
                 Latitude |-> 0, Longitude |-> 0]>>}

\* A nil *LocationInfo.
NoLocation == [IP |-> "", City |-> "", Country |-> "",
               Latitude |-> 0, Longitude |-> 0]

VARIABLES
    cfg,        \* the Config passed to New
    config,     \* Heimdall.config: cfg after applyDefaults
    h,          \* Heimdall.sessions / Heimdall.invalidated: the wired backends
    now,        \* time.Now() / NOW() / datetime('now')
    sessions,   \* MemorySessionStore.sessions, or the rows of the SQL table
    byUser,     \* MemorySessionStore.byUser
    entries,    \* MemoryCache.entries, or the Redis keys: id -> expiresAt
    calls,      \* RegisterSession calls in flight (concurrent specification)
    last,       \* the operation that made the last step, with what it returned
    setAt,      \* history: time of the latest successful InvalidationCache.Set
    supplied,   \* history: the LocationInfo of the latest admitted
                \* RegisterSession call with the id
    closed,     \* the backend objects on which Close was called
    geo,        \* the latest direct call of IsNewLocation / HaversineDistance
    ops,        \* direct calls of the in-memory store in flight, per process
    lin,        \* history: the store after the calls so far, each applied
                \* as a whole in the order the calls took the lock
    concurrentLimit \* the concurrentLimit the caller passes to RegisterSession

vars == <<cfg, config, h, now, sessions, byUser, entries, calls, last,
          setAt, supplied, closed, geo, ops, lin, concurrentLimit>>

\* ------------------------------------------------------------ config.go
applyDefaults(c) ==
    [c EXCEPT
       !.SessionTTL = IF c.SessionTTL <= 0 THEN DefaultConfig.SessionTTL
                      ELSE c.SessionTTL,
       !.InvalidationTTL = IF c.InvalidationTTL <= 0
                           THEN DefaultConfig.SessionTTL
                           ELSE c.InvalidationTTL,
       !.NewLocationThresholdKM =
           IF c.NewLocationThresholdKM <= 0
           THEN DefaultConfig.NewLocationThresholdKM
           ELSE c.NewLocationThresholdKM]

\* time.Duration.Seconds() converted with int64(): whole seconds, truncated.
Seconds(d) == d \div TicksPerSecond

\* ------------------------------------------------------------ heimdall.go
\* New: an omitted store is SQLite, which then also serves as the cache;
\* a supplied cache replaces it; a supplied store with an omitted cache
\* leaves Heimdall.invalidated nil.
New(c) ==
    LET store == IF c.SessionStore /= "nil" THEN c.SessionStore ELSE "sqlite"
        dflt  == IF c.SessionStore /= "nil" THEN "nil" ELSE "sqlite"
    IN [sessions |-> store,
        invalidated |-> IF c.InvalidationCache /= "nil"
                        THEN c.InvalidationCache ELSE dflt]

\* ------------------------------------------------------ store/interface.go
NoSession == [SessionID |-> "", UserID |-> NoUser, DeviceIP |-> "",
              LocCity |-> "", LocCountry |-> "", LocLat |-> 0, LocLng |-> 0,
              CreatedAt |-> 0, TTLSeconds |-> 0, InvalidatedAt |-> NULL]

NewSession(id, u, device, location, ttl, t) ==
    [SessionID |-> id, UserID |-> u, DeviceIP |-> device.IP,
     LocCity |-> location.City, LocCountry |-> location.Country,
     LocLat |-> location.Latitude, LocLng |-> location.Longitude,
     CreatedAt |-> t, TTLSeconds |-> ttl, InvalidatedAt |-> NULL]

ExpiresAt(s) == s.CreatedAt + s.TTLSeconds * Second

IsExpired(s, t) == t > ExpiresAt(s)

Present(tbl, id) == tbl[id].SessionID /= ""

\* All orders in which the elements of a finite set can be enumerated.
RECURSIVE Perms(_)
Perms(S) ==
    IF S = {} THEN {<<>>}
    ELSE UNION {{<<x>> \o p : p \in Perms(S \ {x})} : x \in S}

IsSortedDesc(a) ==
    \A i \in 1..(Len(a) - 1) : a[i].CreatedAt >= a[i + 1].CreatedAt

IdsOf(a) == [i \in 1..Len(a) |-> a[i].SessionID]

Range(f) == {f[i] : i \in 1..Len(f)}

\* SQLiteStore.GetActiveByUser / MySQLStore.GetActiveByUser: the rows of the
\* user with expires_at > now and invalidated_at NULL, ORDER BY created_at
\* DESC (rows with equal created_at come in any order).
SQLGetActiveByUser(tbl, u, t) ==
    LET rows == {tbl[id] : id \in {i \in Ids : /\ Present(tbl, i)
                                                /\ tbl[i].UserID = u
                                                /\ ExpiresAt(tbl[i]) > t
                                                /\ tbl[i].InvalidatedAt = NULL}}
    IN {p \in Perms(rows) : IsSortedDesc(p)}

\* SQLiteStore.Save: INSERT OR REPLACE replaces the whole row, so the
\* columns the statement does not list (invalidated_at) get their default.
SQLiteSave(tbl, s) == [tbl EXCEPT ![s.SessionID] = s]

\* Mutant: a Delete that records an id it does not find as an invalidated
\* row.
SQLDeleteTombstone(tbl, id, t) ==
    IF Present(tbl, id) THEN [tbl EXCEPT ![id].InvalidatedAt = Stamp]
    ELSE [tbl EXCEPT ![id] = [NoSession EXCEPT !.SessionID = id,
                                               !.InvalidatedAt = Stamp]]

\* SQLiteStore.Delete / MySQLStore.Delete: UPDATE ... SET invalidated_at = now.
SQLDelete(tbl, id, t) ==
    IF Present(tbl, id) THEN [tbl EXCEPT ![id].InvalidatedAt = Stamp] ELSE tbl

\* SQLiteStore.Set: UPDATE ... WHERE session_id = ? AND invalidated_at IS
\* NULL; the ttl argument is ignored.
SQLiteSet(tbl, id, ttl, t) ==
    IF Present(tbl, id) /\ tbl[id].InvalidatedAt = NULL
    THEN [tbl EXCEPT ![id].InvalidatedAt = Stamp] ELSE tbl

\* Mutant: the COUNT(*) without the invalidated_at IS NOT NULL condition.
SQLiteExistsAnyRow(tbl, id) == Present(tbl, id)

\* SQLiteStore.Exists: COUNT(*) of rows with that id and invalidated_at set.
SQLiteExists(tbl, id) == Present(tbl, id) /\ tbl[id].InvalidatedAt /= NULL

\* ---------------------------------------------- session.go (MySQLStore)
\* MySQLStore.Save: INSERT ... ON DUPLICATE KEY UPDATE; the update list has
\* the device, location, ttl_seconds and created_at columns but neither
\* user_id nor invalidated_at, so an existing row keeps both.
MySQLSave(tbl, s) ==
    IF Present(tbl, s.SessionID)
    THEN [tbl EXCEPT ![s.SessionID] =
              [s EXCEPT !.UserID = tbl[s.SessionID].UserID,
                        !.InvalidatedAt = tbl[s.SessionID].InvalidatedAt]]
    ELSE [tbl EXCEPT ![s.SessionID] = s]

\* ------------------------------------- session.go (MemorySessionStore)
MemSave(tbl, idx, s) ==
    [sessions |-> [tbl EXCEPT ![s.SessionID] = s],
     byUser |-> [idx EXCEPT ![s.UserID] = @ \cup {s.SessionID}]]

\* Mutant: a Delete that finds the session and returns without removing it.
MemDeleteKeeps(tbl, idx, id) == [sessions |-> tbl, byUser |-> idx]

MemDelete(tbl, idx, id) ==
    IF ~Present(tbl, id) THEN [sessions |-> tbl, byUser |-> idx]
    ELSE [sessions |-> [tbl EXCEPT ![id] = NoSession],
          byUser |-> [idx EXCEPT ![tbl[id].UserID] = @ \ {id}]]

Swap(a, i, j) == [a EXCEPT ![i] = a[j], ![j] = a[i]]

\* The inner and outer loop of the sort in GetActiveByUser.
RECURSIVE SortInner(_, _, _)
SortInner(a, i, j) ==
    IF j > Len(a) THEN a
    ELSE SortInner(IF a[j].CreatedAt > a[i].CreatedAt THEN Swap(a, i, j)
                   ELSE a, i, j + 1)

\* Mutant: an outer loop that stops one position early.
RECURSIVE SortOuterStopsEarly(_, _)
SortOuterStopsEarly(a, i) ==
    IF i > Len(a) - 2 THEN a
    ELSE SortOuterStopsEarly(SortInner(a, i, i + 1), i + 1)

RECURSIVE SortOuter(_, _)
SortOuter(a, i) ==
    IF i > Len(a) - 1 THEN a ELSE SortOuter(SortInner(a, i, i + 1), i + 1)

\* Mutant: the loop without the test of ExpiresAt.
MemGetActiveByUserNoExpiry(tbl, idx, u, t) ==
    LET act == {tbl[id] : id \in {i \in idx[u] : Present(tbl, i)}}
    IN {SortOuter(p, 1) : p \in Perms(act)}

\* MemorySessionStore.GetActiveByUser: the indexed ids whose session exists
\* and has now before ExpiresAt, collected in map iteration order (any
\* order), then sorted.
MemGetActiveByUser(tbl, idx, u, t) ==
    LET act == {tbl[id] : id \in {i \in idx[u] : /\ Present(tbl, i)
                                                  /\ t < ExpiresAt(tbl[i])}}
    IN {SortOuter(p, 1) : p \in Perms(act)}

\* ------------------------------------------- session.go (MemoryCache)
MemCacheSet(ent, id, ttl, t) == [ent EXCEPT ![id] = t + ttl]

MemCacheExists(ent, id) == ent[id] /= NULL

cleanup(ent, t) ==
    [id \in Ids |-> IF ent[id] /= NULL /\ t > ent[id] THEN NULL ELSE ent[id]]

\* ------------------------------------------ unnamed/part_002 (RedisCache)
\* SET key "1" with an expiry of ttl; EXISTS counts the key until it expires.
RedisSet(ent, id, ttl, t) == [ent EXCEPT ![id] = t + ttl]

RedisExists(ent, id, t) == ent[id] /= NULL /\ t < ent[id]

\* --------------------------------------------- the backends behind h
\* Calls to a database or to Redis can return an error; the in-memory
\* backends never do.
CanFail(kind) == kind \in {"sqlite", "mysql", "redis"}

Save(kind, tbl, idx, s) ==
    CASE kind = "memory" -> MemSave(tbl, idx, s)
      [] kind = "sqlite" -> [sessions |-> SQLiteSave(tbl, s), byUser |-> idx]
      [] kind = "mysql" -> [sessions |-> MySQLSave(tbl, s), byUser |-> idx]

Delete(kind, tbl, idx, id, t) ==
    CASE kind = "memory" -> MemDelete(tbl, idx, id)
      [] kind \in {"sqlite", "mysql"} ->
             [sessions |-> SQLDelete(tbl, id, t), byUser |-> idx]

GetActiveByUser(kind, tbl, idx, u, t) ==
    CASE kind = "memory" -> MemGetActiveByUser(tbl, idx, u, t)
      [] kind \in {"sqlite", "mysql"} -> SQLGetActiveByUser(tbl, u, t)

\* InvalidationCache.Set: the cache state <<table, entries>> afterwards.
Set(kind, tbl, ent, id, ttl, t) ==
    CASE kind = "memory" ->
             [sessions |-> tbl, entries |-> MemCacheSet(ent, id, ttl, t)]
      [] kind = "redis" ->
             [sessions |-> tbl, entries |-> RedisSet(ent, id, ttl, t)]
      [] kind = "sqlite" ->
             [sessions |-> SQLiteSet(tbl, id, ttl, t), entries |-> ent]

Exists(kind, tbl, ent, id, t) ==
    CASE kind = "memory" -> MemCacheExists(ent, id)
      [] kind = "redis" -> RedisExists(ent, id, t)
      [] kind = "sqlite" -> SQLiteExists(tbl, id)

\* ------------------------------------------------------ history variables
\* The id has no trace in the session store.
Fresh(id) == ~Present(sessions, id) /\ \A v \in Users : id \notin byUser[v]

\* The ids the store holds for user u, live or not.
Recorded(u) ==
    byUser[u] \cup {id \in Ids : Present(sessions, id)
                                 /\ sessions[id].UserID = u}

\* The session of id is a stored session of u that has neither expired nor
\* been invalidated.
Live(u, id) ==
    /\ Present(sessions, id)
    /\ sessions[id].UserID = u
    /\ sessions[id].InvalidatedAt = NULL
    /\ now < ExpiresAt(sessions[id])

\* A RegisterSession(u, id, lim) call continues a clean run of u: every
\* session registered for u so far is still live (none expired, none was
\* invalidated or taken over), and id is new to the store.
Clean(u, id, lim) ==
    /\ \A i \in Recorded(u) : Live(u, i)
    /\ Fresh(id)
    /\ lim > 0

\* What an operation returned; an operation sets the fields it has and
\* leaves the others at their zero value.  The last three fields describe the
\* state the call started in: k is the length of the clean run a
\* RegisterSession call continued (NULL if none), owners the users whose
\* active list held the id of an InvalidateSession call, HadRecord whether the
\* store had a record for that id.
Res(op) ==
    [op |-> op, user |-> NoUser, id |-> "", outcome |-> "ok",
     LimitExceeded |-> FALSE, HasSession |-> FALSE, ActiveSessions |-> <<>>,
     IsNewLocation |-> FALSE, PreviousLocation |-> NoLocation,
     Invalidated |-> FALSE, k |-> NULL, owners |-> {}, HadRecord |-> FALSE,
     freed |-> NoUser]

\* The user the call before this one rejected for the limit, if it did.
RejectedBefore ==
    IF last.op = "RegisterSession" /\ last.LimitExceeded
    THEN last.user ELSE NoUser

\* The user rejected by the call before whose active session id this
\* InvalidateSession(id) ends, and the one an active session of whom expires
\* while the clock advances to t.
FreedByInvalidate(id) ==
    IF Live(RejectedBefore, id) THEN RejectedBefore ELSE NoUser

FreedByExpiry(t) ==
    IF \E id \in Ids : /\ Live(RejectedBefore, id)
                       /\ ~(t < ExpiresAt(sessions[id]))
    THEN RejectedBefore ELSE NoUser

Failed(op, u, id, outcome) ==
    [Res(op) EXCEPT !.user = u, !.id = id, !.outcome = outcome]

\* A RegisterSession call of the concurrent specification: pc is "idle",
\* "read" (GetActiveByUser returned, Save not yet called), "admitted" or
\* "rejected"; active is the list GetActiveByUser returned, alert the
\* outcome of the new-location check made on it.
\* No direct call of the distance functions was made.
NoGeo == [op |-> "", prev |-> NoLocation, curr |-> NoLocation,
          thresholdKM |-> 0, result |-> FALSE, distance |-> 0, back |-> 0]

\* A direct call of the in-memory store: pc is "idle", "saving" (Save holds
\* the lock and has written the session map), "deleting" (Delete holds the
\* lock and has updated the user index), "reading" (GetActiveByUser holds
\* the read lock) or "done".
NoOp == [pc |-> "idle", op |-> "", user |-> NoUser, id |-> "",
         result |-> <<>>]

NoAlert == [IsNewLocation |-> FALSE, PreviousLocation |-> NoLocation]

NoCall == [pc |-> "idle", user |-> NoUser, id |-> "", device |-> [IP |-> ""],
           location |-> NoLocation, active |-> <<>>, alert |-> NoAlert]

\* ---------------------------------------------------------------- Init
\* The state after New(cfg), for the Config values and limits given.
Start(sessionTTLs, invalidationTTLs, thresholds, backends, limits) ==
    /\ \E st \in sessionTTLs, it \in invalidationTTLs, th \in thresholds,
          b \in backends :
            cfg = [SessionTTL |-> st, InvalidationTTL |-> it,
                   NewLocationThresholdKM |-> th,
                   SessionStore |-> b[1], InvalidationCache |-> b[2]]
    /\ config = applyDefaults(cfg)
    /\ h = New(cfg)
    /\ concurrentLimit \in limits
    /\ now = 0
    /\ sessions = [id \in Ids |-> NoSession]
    /\ byUser = [u \in Users |-> {}]
    /\ entries = [id \in Ids |-> NULL]
    /\ calls = [p \in Procs |-> NoCall]
    /\ last = Res("New")
    /\ setAt = [id \in Ids |-> NULL]
    /\ supplied = [id \in Ids |-> NoLocation]
    /\ closed = {}
    /\ geo = NoGeo
    /\ ops = [p \in Procs |-> NoOp]
    /\ lin = [sessions |-> sessions, byUser |-> byUser]

Init == Start(CfgSessionTTLs, CfgInvalidationTTLs, {0}, CfgBackends,
              0..MaxLimit)

\* ------------------------------------------------- unnamed/part_001
\* The length of one degree of a great circle, in metres: earthRadiusKM
\* times pi / 180, with 355 / 113 for pi.
MetresPerDegree == (earthRadiusKM * 100 * 355) \div (113 * 18)

Abs(x) == IF x < 0 THEN -x ELSE x

\* Mutant: the difference of the angles taken with its sign.
HaversineDistanceSigned(lat1, lng1, lat2, lng2) ==
    CASE lng1 = lng2 -> ((lat2 - lat1) * MetresPerDegree) \div 10
      [] lng1 /= lng2 /\ lat1 = 0 /\ lat2 = 0 ->
             ((lng2 - lng1) * MetresPerDegree) \div 10

\* HaversineDistance, in metres, for two points on one meridian or both on
\* the equator, where the great-circle distance is the radius times the
\* difference of the angles.  The callers of this model pass no other pair.
HaversineDistance(lat1, lng1, lat2, lng2) ==
    CASE lng1 = lng2 -> (Abs(lat2 - lat1) * MetresPerDegree) \div 10
      [] lng1 /= lng2 /\ lat1 = 0 /\ lat2 = 0 ->
             ((IF Abs(lng2 - lng1) > 1800 THEN 3600 - Abs(lng2 - lng1)
               ELSE Abs(lng2 - lng1)) * MetresPerDegree) \div 10

\* Mutant: a location counts as without coordinates when either is 0.
NoCoordinatesEither(l) == l.Latitude = 0 \/ l.Longitude = 0

\* The test for a location without coordinates.
NoCoordinates(l) == l.Latitude = 0 /\ l.Longitude = 0

\* Mutant: the city of one location compared with the country of the other.
CityOrCountryMixedUp(prev, curr) ==
    prev.City /= curr.Country \/ prev.Country /= curr.City

\* The comparison by city and country.
CityOrCountryDiffers(prev, curr) ==
    prev.City /= curr.City \/ prev.Country /= curr.Country

\* Mutant: a distance equal to the threshold counts as a new location.
IsNewLocationAtLeast(prev, curr, thresholdKM) ==
    IF NoCoordinates(prev) THEN CityOrCountryDiffers(prev, curr)
    ELSE IF NoCoordinates(curr) THEN CityOrCountryDiffers(prev, curr)
    ELSE HaversineDistance(prev.Latitude, prev.Longitude,
                           curr.Latitude, curr.Longitude) >= thresholdKM

IsNewLocation(prev, curr, thresholdKM) ==
    IF NoCoordinates(prev) THEN CityOrCountryDiffers(prev, curr)
    ELSE IF NoCoordinates(curr) THEN CityOrCountryDiffers(prev, curr)
    ELSE HaversineDistance(prev.Latitude, prev.Longitude,
                           curr.Latitude, curr.Longitude) > thresholdKM

\* ------------------------------------------- heimdall.go: RegisterSession
\* Mutant: a limit check that takes the limit 0 as a limit of no sessions.
LimitAlwaysOn(lim) == TRUE

\* concurrentLimit > 0: the limit 0 stands for no limit.
LimitOn(lim) == lim > 0

\* Mutant: a limit check that lets one session too many through.
LimitReachedOffByOne(lim, n) == LimitOn(lim) /\ n > lim

\* The limit check of RegisterSession.
LimitReached(lim, n) == LimitOn(lim) /\ n >= lim

\* The prevLocation RegisterSession builds from a stored session.
PrevLocation(s) ==
    [IP |-> s.DeviceIP, City |-> s.LocCity, Country |-> s.LocCountry,
     Latitude |-> s.LocLat, Longitude |-> s.LocLng]

\* The new-location check of RegisterSession on the list a it fetched.
LocationAlert(a, location) ==
    IF Len(a) > 0 /\ IsNewLocation(PrevLocation(a[1]), location,
                                   config.NewLocationThresholdKM)
    THEN [IsNewLocation |-> TRUE, PreviousLocation |-> PrevLocation(a[1])]
    ELSE NoAlert

\* The session RegisterSession builds and saves.
BuildSession(u, id, device, location, t) ==
    NewSession(id, u, device, location, Seconds(config.SessionTTL), t)

\* Mutant: the limit check after the Save instead of before it.
RejectAfterSave(u, id, active, k) ==
    LET st == Save(h.sessions, sessions, byUser,
                   BuildSession(u, id, Device0, Loc0, now))
    IN /\ sessions' = st.sessions
       /\ byUser' = st.byUser
       /\ last' = [Res("RegisterSession") EXCEPT
                     !.user = u, !.id = id, !.LimitExceeded = TRUE,
                     !.ActiveSessions = active, !.k = k]
       /\ UNCHANGED supplied

\* RegisterSession returns early: limit exceeded, nothing is saved.
Reject(u, id, active, k) ==
    /\ last' = [Res("RegisterSession") EXCEPT
                  !.user = u, !.id = id, !.LimitExceeded = TRUE,
                  !.ActiveSessions = active, !.k = k]
    /\ UNCHANGED <<sessions, byUser, supplied>>

\* Mutant: the limit is checked again, atomically with the Save, so a call
\* that lost a race saves nothing.
AdmitAtomic(u, id, device, location, active, alert, k) ==
    LET full == \E a \in GetActiveByUser(h.sessions, sessions, byUser, u, now) :
                   LimitReached(concurrentLimit, Len(a))
        st == IF full THEN [sessions |-> sessions, byUser |-> byUser]
              ELSE Save(h.sessions, sessions, byUser,
                        BuildSession(u, id, device, location, now))
    IN /\ sessions' = st.sessions
       /\ byUser' = st.byUser
       /\ supplied' = IF full THEN supplied
                      ELSE [supplied EXCEPT ![id] = location]
       /\ last' = [Res("RegisterSession") EXCEPT
                     !.user = u, !.id = id, !.HasSession = ~full,
                     !.LimitExceeded = full,
                     !.ActiveSessions = IF full THEN active
                                        ELSE <<id>> \o active, !.k = k]

\* RegisterSession saves the new session and puts it in front of the list
\* it fetched; alert is the outcome of the new-location check.
Admit(u, id, device, location, active, alert, k) ==
    LET st == Save(h.sessions, sessions, byUser,
                   BuildSession(u, id, device, location, now))
    IN /\ sessions' = st.sessions
       /\ byUser' = st.byUser
       /\ supplied' = [supplied EXCEPT ![id] = location]
       /\ last' = [Res("RegisterSession") EXCEPT
                     !.user = u, !.id = id, !.HasSession = TRUE,
                     !.ActiveSessions = <<id>> \o active,
                     !.IsNewLocation = alert.IsNewLocation,
                     !.PreviousLocation = alert.PreviousLocation, !.k = k]

\* RegisterSession returns the error of GetActiveByUser.
GetFails(u, id) ==
    /\ last' = Failed("RegisterSession", u, id, "GetActiveByUser error")
    /\ UNCHANGED <<sessions, byUser, supplied>>

\* Mutant: a failed Save is followed by a Delete of the id, to roll back.
SaveFailsRollsBack(u, id) ==
    LET st == Delete(h.sessions, sessions, byUser, id, now)
    IN /\ last' = Failed("RegisterSession", u, id, "Save error")
       /\ sessions' = st.sessions
       /\ byUser' = st.byUser
       /\ UNCHANGED supplied

\* RegisterSession returns the error of Save; the one statement of Save
\* wrote nothing.
SaveFails(u, id) ==
    /\ last' = Failed("RegisterSession", u, id, "Save error")
    /\ UNCHANGED <<sessions, byUser, supplied>>

\* fail names the store call that returns an error: "get" (GetActiveByUser),
\* "save" (Save) or "none".
RegisterSession(u, id, device, location, lim, fail) ==
    /\ fail /= "none" => CanFail(h.sessions)
    /\ UNCHANGED <<cfg, config, h, now, entries, calls, setAt,
                   concurrentLimit, closed,
                   geo, ops, lin>>
    /\ IF fail = "get"
       THEN GetFails(u, id)
       ELSE \E a \in GetActiveByUser(h.sessions, sessions, byUser, u, now) :
         LET k == IF Clean(u, id, lim) THEN Cardinality(Recorded(u)) ELSE NULL
         IN IF LimitReached(lim, Len(a))
            THEN fail = "none" /\ Reject(u, id, IdsOf(a), k)
            ELSE IF fail = "save"
                 THEN SaveFails(u, id)
                 ELSE Admit(u, id, device, location, IdsOf(a),
                            LocationAlert(a, location), k)

\* ----------------------------------------- heimdall.go: InvalidateSession
\* The users whose active list holds the id.
Owners(id) ==
    {u \in Users :
       \E a \in GetActiveByUser(h.sessions, sessions, byUser, u, now) :
          \E i \in 1..Len(a) : a[i].SessionID = id}

\* Mutant: the cache is set although Delete returned an error.
DeleteFailsSetAnyway(id) ==
    LET c == Set(h.invalidated, sessions, entries, id,
                 config.InvalidationTTL, now)
    IN /\ last' = Failed("InvalidateSession", NoUser, id, "Delete error")
       /\ sessions' = c.sessions
       /\ entries' = c.entries
       /\ setAt' = [setAt EXCEPT ![id] = now]
       /\ UNCHANGED byUser

\* InvalidateSession returns the error of Delete before it reaches the cache.
DeleteFails(id) ==
    /\ last' = Failed("InvalidateSession", NoUser, id, "Delete error")
    /\ UNCHANGED <<sessions, byUser, entries, setAt>>

\* fail names the call that returns an error: "delete" (SessionStore.Delete),
\* "set" (InvalidationCache.Set) or "none".
InvalidateSession(id, fail) ==
    /\ fail = "delete" => CanFail(h.sessions)
    /\ fail = "set" => CanFail(h.invalidated)
    /\ UNCHANGED <<cfg, config, h, now, calls, supplied, concurrentLimit, closed,
                   geo, ops, lin>>
    /\ IF fail = "delete"
       THEN DeleteFails(id)
       ELSE LET st == Delete(h.sessions, sessions, byUser, id, now)
            IN /\ byUser' = st.byUser
               /\ IF h.invalidated = "nil"
                  THEN \* h.invalidated.Set on a nil interface value
                       /\ last' = Failed("InvalidateSession", NoUser, id,
                                         "panic")
                       /\ sessions' = st.sessions
                       /\ UNCHANGED <<entries, setAt>>
                  ELSE IF fail = "set"
                  THEN /\ last' = Failed("InvalidateSession", NoUser, id,
                                         "Set error")
                       /\ sessions' = st.sessions
                       /\ UNCHANGED <<entries, setAt>>
                  ELSE LET c == Set(h.invalidated, st.sessions, entries, id,
                                    config.InvalidationTTL, now)
                       IN /\ sessions' = c.sessions
                          /\ entries' = c.entries
                          /\ setAt' = [setAt EXCEPT ![id] = now]
                          /\ last' = [Res("InvalidateSession") EXCEPT
                                        !.id = id, !.owners = Owners(id),
                                        !.HadRecord = Present(sessions, id),
                                        !.freed = FreedByInvalidate(id)]

\* -------------------------------------- heimdall.go: IsSessionInvalidated
\* The value IsSessionInvalidated(id) returns when the cache answers.
Invalidated(id) == Exists(h.invalidated, sessions, entries, id, now)

IsSessionInvalidated(id, fail) ==
    /\ fail => CanFail(h.invalidated)
    /\ UNCHANGED <<cfg, config, h, now, sessions, byUser, entries, calls,
                   setAt, supplied, concurrentLimit, closed,
                   geo, ops, lin>>
    /\ last' = IF h.invalidated = "nil"
               THEN Failed("IsSessionInvalidated", NoUser, id, "panic")
               ELSE IF fail
               THEN Failed("IsSessionInvalidated", NoUser, id, "error")
               ELSE [Res("IsSessionInvalidated") EXCEPT
                       !.id = id, !.Invalidated = Invalidated(id)]

\* ---------------------------------------------- heimdall.go: ListSessions
\* The results ListSessions(u) can return when the store answers.
Listings(u) ==
    {IdsOf(a) : a \in GetActiveByUser(h.sessions, sessions, byUser, u, now)}

ListSessions(u, fail) ==
    /\ fail => CanFail(h.sessions)
    /\ UNCHANGED <<cfg, config, h, now, sessions, byUser, entries, calls,
                   setAt, supplied, concurrentLimit, closed,
                   geo, ops, lin>>
    /\ IF fail
       THEN last' = Failed("ListSessions", u, "", "error")
       ELSE \E l \in Listings(u) :
              last' = [Res("ListSessions") EXCEPT
                         !.user = u, !.ActiveSessions = l]

\* ------------------------------------- direct calls of the distance policy
\* The locations and thresholds a caller passes to IsNewLocation: with and
\* without coordinates, with one coordinate 0, on the meridian 0 and on the
\* equator; a threshold that equals a distance between two of them.
GeoCoordinates == {<<0, 0>>, <<10, 0>>, <<15, 0>>, <<0, 10>>, <<0, -5>>}

GeoLocations ==
    {[IP |-> ip, City |-> c, Country |-> k, Latitude |-> p[1],
      Longitude |-> p[2]] :
        ip \in {"ip1", "ip2"}, c \in {"c1", "c2"}, k \in {"k1"},
        p \in GeoCoordinates}

GeoThresholds == {0, 50 * 1000, HaversineDistance(10, 0, 15, 0), 100 * 1000}

\* The pairs of points HaversineDistance is modelled for.
OnOneCircle(a, b) ==
    a.Longitude = b.Longitude \/ (a.Latitude = 0 /\ b.Latitude = 0)

IsNewLocationCall(prev, curr, thresholdKM) ==
    /\ NoCoordinates(prev) \/ NoCoordinates(curr) \/ OnOneCircle(prev, curr)
    /\ geo' = [NoGeo EXCEPT
                 !.op = "IsNewLocation", !.prev = prev, !.curr = curr,
                 !.thresholdKM = thresholdKM,
                 !.result = IsNewLocation(prev, curr, thresholdKM)]
    /\ UNCHANGED <<cfg, config, h, now, sessions, byUser, entries, calls,
                   last, setAt, supplied, closed, concurrentLimit, ops, lin>>

\* HaversineDistance called for a pair of points and for the reversed pair.
HaversineDistanceCall(a, b) ==
    /\ OnOneCircle(a, b)
    /\ geo' = [NoGeo EXCEPT
                 !.op = "HaversineDistance", !.prev = a, !.curr = b,
                 !.distance = HaversineDistance(a.Latitude, a.Longitude,
                                                b.Latitude, b.Longitude),
                 !.back = HaversineDistance(b.Latitude, b.Longitude,
                                            a.Latitude, a.Longitude)]
    /\ UNCHANGED <<cfg, config, h, now, sessions, byUser, entries, calls,
                   last, setAt, supplied, closed, concurrentLimit, ops, lin>>

InitGeo == Start({0}, {0}, {0}, {<<"memory", "memory">>}, {0})

NextGeo ==
    \/ \E prev \in GeoLocations, curr \in GeoLocations,
          thresholdKM \in GeoThresholds :
         IsNewLocationCall(prev, curr, thresholdKM)
    \/ \E a \in GeoLocations, b \in GeoLocations : HaversineDistanceCall(a, b)

SpecGeo == InitGeo /\ [][NextGeo]_vars

\* ------------------------------------------------------------------ Close
\* What Close returns on each backend; wasClosed tells whether Close was
\* called on the object before.  MemoryCache.Close closes the stopCleanup
\* channel, and closing a closed channel panics; sql.DB.Close returns nil
\* on a closed DB; redis.Client.Close returns an error on a closed client.
BackendClose(kind, wasClosed) ==
    CASE kind = "memory cache" -> IF wasClosed THEN "panic" ELSE "ok"
      [] kind = "memory" -> "ok"
      [] kind \in {"sqlite", "mysql"} -> "ok"
      [] kind = "redis" -> IF wasClosed THEN "error" ELSE "ok"

\* The object behind h.invalidated: the store itself in the default wiring.
CacheObject == IF h.invalidated = "sqlite" THEN "store" ELSE "cache"

CacheClose(objects) ==
    BackendClose(IF h.invalidated = "memory" THEN "memory cache"
                 ELSE h.invalidated, CacheObject \in objects)

\* SessionStore.Close called by the application.
CloseStore ==
    /\ last' = [Res("SessionStore.Close") EXCEPT
                  !.outcome = BackendClose(h.sessions, "store" \in closed)]
    /\ closed' = closed \cup {"store"}
    /\ UNCHANGED <<cfg, config, h, now, sessions, byUser, entries, calls,
                   setAt, supplied, geo, concurrentLimit, ops, lin>>

\* InvalidationCache.Close called by the application.
CloseCache ==
    /\ h.invalidated /= "nil"
    /\ last' = [Res("InvalidationCache.Close") EXCEPT
                  !.outcome = CacheClose(closed)]
    /\ closed' = IF CacheClose(closed) = "panic" THEN closed
                 ELSE closed \cup {CacheObject}
    /\ UNCHANGED <<cfg, config, h, now, sessions, byUser, entries, calls,
                   setAt, supplied, geo, concurrentLimit, ops, lin>>

\* Heimdall.Close: closes the store, then the cache if there is one, and
\* returns the errors it collected.
Close ==
    LET first == BackendClose(h.sessions, "store" \in closed)
        second == IF h.invalidated = "nil" THEN "ok"
                  ELSE CacheClose(closed \cup {"store"})
    IN /\ last' = [Res("Close") EXCEPT
                     !.outcome = IF second = "panic" THEN "panic"
                                 ELSE IF "error" \in {first, second}
                                 THEN "error" ELSE "ok"]
       /\ closed' = closed \cup {"store"}
                       \cup (IF h.invalidated = "nil" \/ second = "panic"
                             THEN {} ELSE {CacheObject})
       /\ UNCHANGED <<cfg, config, h, now, sessions, byUser, entries, calls,
                      setAt, supplied, geo, concurrentLimit, ops, lin>>

\* The specification of shutdown: Close calls in any number and order.
NextClose == CloseStore \/ CloseCache \/ Close

SpecClose == Init /\ [][NextClose]_vars

\* ------------------------------------------------------------ environment
\* The clock advances by one second.
Tick ==
    /\ now < MaxSeconds * Second
    /\ now' = now + Second
    /\ last' = [Res("Tick") EXCEPT !.freed = FreedByExpiry(now')]
    /\ UNCHANGED <<cfg, config, h, sessions, byUser, entries, calls, setAt,
                   supplied, concurrentLimit, closed,
                   geo, ops, lin>>

\* MemoryCache.cleanupLoop: the background sweep of the in-memory cache.
\* The phase of its ticker relative to the calls is left open.
Cleanup ==
    /\ h.invalidated = "memory"
    /\ entries' = cleanup(entries, now)
    /\ last' = Res("cleanup")
    /\ UNCHANGED <<cfg, config, h, now, sessions, byUser, calls, setAt,
                   supplied, concurrentLimit, closed,
                   geo, ops, lin>>

\* The sequential specification: one call at a time, backends that answer.
Next ==
    \/ \E u \in Users, id \in SeqIds :
         RegisterSession(u, id, Device0, Loc0, concurrentLimit, "none")
    \/ \E id \in SeqIds : InvalidateSession(id, "none")
    \/ \E id \in SeqIds : IsSessionInvalidated(id, FALSE)
    \/ \E u \in Users : ListSessions(u, FALSE)
    \/ Tick
    \/ Cleanup

Spec == Init /\ [][Next]_vars

\* The sequential specification with store and cache calls that can return
\* an error.
NextFail ==
    \/ \E u \in Users, id \in SeqIds, fail \in {"none", "get", "save"} :
         RegisterSession(u, id, Device0, Loc0, concurrentLimit, fail)
    \/ \E id \in SeqIds, fail \in {"none", "delete", "set"} :
         InvalidateSession(id, fail)
    \/ \E id \in SeqIds, fail \in BOOLEAN : IsSessionInvalidated(id, fail)
    \/ \E u \in Users, fail \in BOOLEAN : ListSessions(u, fail)

SpecFail == Init /\ [][NextFail]_vars

\* The specification of the location check: callers that pass any device
\* and location, no session limit, the default TTLs.
InitLoc == Start({0}, {0}, CfgThresholds, LocBackends, {0})

NextLoc ==
    \/ \E u \in Users, id \in SeqIds, r \in Requests :
         RegisterSession(u, id, r[1], r[2], concurrentLimit, "none")
    \/ \E id \in SeqIds : InvalidateSession(id, "none")
    \/ Tick

SpecLoc == InitLoc /\ [][NextLoc]_vars

\* ------------------------------- RegisterSession calls that run concurrently
\* The first store call of RegisterSession by process p, with the limit
\* check that follows it.
RegRead(p, u, id, device, location, lim) ==
    /\ calls[p].pc = "idle"
    /\ UNCHANGED <<cfg, config, h, now, entries, setAt, concurrentLimit, closed,
                   geo, ops, lin>>
    /\ \E a \in GetActiveByUser(h.sessions, sessions, byUser, u, now) :
         IF LimitReached(lim, Len(a))
         THEN /\ Reject(u, id, IdsOf(a), NULL)
              /\ calls' = [calls EXCEPT ![p] =
                             [pc |-> "rejected", user |-> u, id |-> id,
                              device |-> device, location |-> location,
                              active |-> IdsOf(a), alert |-> NoAlert]]
         ELSE /\ calls' = [calls EXCEPT ![p] =
                             [pc |-> "read", user |-> u, id |-> id,
                              device |-> device, location |-> location,
                              active |-> IdsOf(a),
                              alert |-> LocationAlert(a, location)]]
              /\ last' = [Res("GetActiveByUser") EXCEPT
                            !.user = u, !.id = id, !.ActiveSessions = IdsOf(a)]
              /\ UNCHANGED <<sessions, byUser, supplied>>

\* The second store call of RegisterSession by process p.
RegSave(p) ==
    /\ calls[p].pc = "read"
    /\ UNCHANGED <<cfg, config, h, now, entries, setAt, concurrentLimit, closed,
                   geo, ops, lin>>
    /\ Admit(calls[p].user, calls[p].id, calls[p].device, calls[p].location,
             calls[p].active, calls[p].alert, NULL)
    /\ calls' = [calls EXCEPT ![p].pc = "admitted"]

NextConc ==
    \/ \E p \in Procs, u \in Users, id \in Ids :
         RegRead(p, u, id, Device0, Loc0, concurrentLimit)
    \/ \E p \in Procs : RegSave(p)

SpecConc == Init /\ [][NextConc]_vars

\* ------------------- session.go: concurrent calls of MemorySessionStore
\* sync.RWMutex: Lock waits for the writer and the readers that hold the
\* mutex, RLock for the writer.
Writing(p) == ops[p].pc \in {"saving", "deleting"}

Reading(p) == ops[p].pc = "reading"

\* Mutant: a Lock that never waits.
CanLockAlways == TRUE

CanLock == \A q \in Procs : ~Writing(q) /\ ~Reading(q)

CanRLock == \A q \in Procs : ~Writing(q)

\* Save up to s.sessions[session.SessionID] = session.
SaveLock(p, u, id) ==
    LET s == NewSession(id, u, Device0, Loc0, Seconds(config.SessionTTL), now)
    IN /\ ops[p].pc = "idle"
       /\ CanLock
       /\ sessions' = [sessions EXCEPT ![id] = s]
       /\ lin' = MemSave(lin.sessions, lin.byUser, s)
       /\ ops' = [ops EXCEPT ![p] = [NoOp EXCEPT !.pc = "saving",
                                                 !.op = "Save",
                                                 !.user = u, !.id = id]]
       /\ UNCHANGED <<cfg, config, h, now, byUser, entries, calls, last,
                      setAt, supplied, closed, geo, concurrentLimit>>

\* Save from the update of byUser to the deferred Unlock.
SaveIndex(p) ==
    /\ ops[p].pc = "saving"
    /\ byUser' = [byUser EXCEPT ![ops[p].user] = @ \cup {ops[p].id}]
    /\ ops' = [ops EXCEPT ![p].pc = "done"]
    /\ UNCHANGED <<cfg, config, h, now, sessions, entries, calls, last,
                   setAt, supplied, closed, geo, lin, concurrentLimit>>

\* Delete up to the removal of the id from the user index; it returns at
\* once when the session map has no such id.
DeleteLock(p, id) ==
    /\ ops[p].pc = "idle"
    /\ CanLock
    /\ lin' = MemDelete(lin.sessions, lin.byUser, id)
    /\ IF ~Present(sessions, id)
       THEN /\ ops' = [ops EXCEPT ![p] = [NoOp EXCEPT !.pc = "done",
                                                      !.op = "Delete",
                                                      !.id = id]]
            /\ UNCHANGED byUser
       ELSE /\ ops' = [ops EXCEPT ![p] = [NoOp EXCEPT !.pc = "deleting",
                                                      !.op = "Delete",
                                                      !.id = id]]
            /\ byUser' = [byUser EXCEPT ![sessions[id].UserID] = @ \ {id}]
    /\ UNCHANGED <<cfg, config, h, now, sessions, entries, calls, last,
                   setAt, supplied, closed, geo, concurrentLimit>>

\* Delete from delete(s.sessions, sessionID) to the deferred Unlock.
DeleteSession(p) ==
    /\ ops[p].pc = "deleting"
    /\ sessions' = [sessions EXCEPT ![ops[p].id] = NoSession]
    /\ ops' = [ops EXCEPT ![p].pc = "done"]
    /\ UNCHANGED <<cfg, config, h, now, byUser, entries, calls, last,
                   setAt, supplied, closed, geo, lin, concurrentLimit>>

\* GetActiveByUser: RLock.
GetRLock(p, u) ==
    /\ ops[p].pc = "idle"
    /\ CanRLock
    /\ ops' = [ops EXCEPT ![p] = [NoOp EXCEPT !.pc = "reading",
                                              !.op = "GetActiveByUser",
                                              !.user = u]]
    /\ UNCHANGED <<cfg, config, h, now, sessions, byUser, entries, calls,
                   last, setAt, supplied, closed, geo, lin, concurrentLimit>>

\* GetActiveByUser from the lookup in byUser to the deferred RUnlock.
GetRead(p) ==
    /\ ops[p].pc = "reading"
    /\ \E a \in MemGetActiveByUser(sessions, byUser, ops[p].user, now) :
         ops' = [ops EXCEPT ![p].pc = "done", ![p].result = IdsOf(a)]
    /\ UNCHANGED <<cfg, config, h, now, sessions, byUser, entries, calls,
                   last, setAt, supplied, closed, geo, lin, concurrentLimit>>

\* The clock of the store specification.
StoreTick ==
    /\ now < MaxSeconds * Second
    /\ now' = now + Second
    /\ UNCHANGED <<cfg, config, h, sessions, byUser, entries, calls, last,
                   setAt, supplied, closed, geo, ops, lin, concurrentLimit>>

InitStore == Start({Second}, {0}, {0}, {<<"memory", "memory">>}, {0})

NextStore ==
    \/ \E p \in Procs, u \in Users, id \in SeqIds : SaveLock(p, u, id)
    \/ \E p \in Procs : SaveIndex(p)
    \/ \E p \in Procs, id \in SeqIds : DeleteLock(p, id)
    \/ \E p \in Procs : DeleteSession(p)
    \/ \E p \in Procs, u \in Users : GetRLock(p, u)
    \/ \E p \in Procs : GetRead(p)
    \/ StoreTick

SpecStore == InitStore /\ [][NextStore]_vars

\* ================================================================= claims
\* The number of active sessions GetActiveByUser reports for u.
ActiveCounts(u) ==
    {Len(a) : a \in GetActiveByUser(h.sessions, sessions, byUser, u, now)}

\* C1: in a run of registrations with new ids for a user whose sessions so
\* far are all live, under the limit N > 0, a call that finds fewer than N
\* sessions is admitted (LimitExceeded false, Session set), and the call
\* that finds N is rejected with LimitExceeded true, no Session and exactly
\* N ActiveSessions.
C1_LimitEnforced ==
    (last.op = "RegisterSession" /\ last.outcome = "ok" /\ last.k /= NULL) =>
        /\ last.k < concurrentLimit =>
               ~last.LimitExceeded /\ last.HasSession
        /\ last.k = concurrentLimit =>
               /\ last.LimitExceeded
               /\ ~last.HasSession
               /\ Len(last.ActiveSessions) = concurrentLimit

\* The N+1-th registration of a run was rejected.
C1_Witness ==
    /\ last.op = "RegisterSession"
    /\ last.k = concurrentLimit
    /\ last.LimitExceeded
    /\ Len(last.ActiveSessions) = concurrentLimit

\* C2: with one limit N > 0 used by every RegisterSession call, no user ever
\* has more than N active sessions.
C2_ActiveWithinLimit ==
    concurrentLimit > 0 =>
        \A u \in Users : \A n \in ActiveCounts(u) : n <= concurrentLimit

\* Some user's active list exceeds the limit.
C2_Exceeded ==
    concurrentLimit > 0
    /\ \E u \in Users : \E n \in ActiveCounts(u) : n > concurrentLimit

\* C3: a RegisterSession call that returns LimitExceeded = true changes
\* neither the session store nor the invalidation cache, so every user's
\* ListSessions result is what it was before the call: the call makes its
\* session id visible in no list.
C3_RejectionHasNoEffect ==
    [][(last'.op = "RegisterSession" /\ last'.LimitExceeded) =>
           /\ sessions' = sessions
           /\ byUser' = byUser
           /\ entries' = entries
           /\ \A u \in Users : Listings(u)' = Listings(u)]_vars

\* A registration was rejected while the user had active sessions.
C3_Witness ==
    /\ last.op = "RegisterSession"
    /\ last.LimitExceeded
    /\ Len(last.ActiveSessions) > 0
    /\ ~Present(sessions, last.id)

\* C4: with concurrentLimit = 0 every RegisterSession call that the store
\* answers is admitted and the session is saved, however many sessions of
\* the user are active.
C4_ZeroMeansNoLimit ==
    (last.op = "RegisterSession" /\ last.outcome = "ok"
                                 /\ concurrentLimit = 0) =>
        /\ ~last.LimitExceeded
        /\ last.HasSession
        /\ Present(sessions, last.id)
        /\ sessions[last.id].CreatedAt = now

\* A registration without limit was admitted on top of an active session.
C4_Witness ==
    /\ last.op = "RegisterSession"
    /\ concurrentLimit = 0
    /\ last.HasSession
    /\ Len(last.ActiveSessions) >= 2

\* C6: after InvalidateSession(id) returned without error for an id that
\* was active for user u, IsSessionInvalidated(id) is true and no
\* ListSessions(u) result contains id.
C6_InvalidatedAndUnlisted ==
    (last.op = "InvalidateSession" /\ last.outcome = "ok"
                                   /\ last.owners /= {}) =>
        /\ Invalidated(last.id)
        /\ \A u \in last.owners : \A l \in Listings(u) :
              \A i \in 1..Len(l) : l[i] /= last.id

\* An active session was invalidated.
C6_Witness ==
    /\ last.op = "InvalidateSession"
    /\ last.outcome = "ok"
    /\ last.owners /= {}
    /\ Invalidated(last.id)

\* The id was invalidated and less than the invalidation TTL has passed
\* since the latest InvalidationCache.Set.
WithinTTL(id) ==
    setAt[id] /= NULL /\ now < setAt[id] + config.InvalidationTTL

\* C7: Exists(id), and so IsSessionInvalidated(id), is true exactly when
\* Set(id, ttl) was called and less than ttl has passed since the latest
\* such call, with or without a sweep.
C7_ExistsIffWithinTTL ==
    h.invalidated /= "nil" =>
        \A id \in Ids : Invalidated(id) <=> WithinTTL(id)

\* C8: once InvalidateSession(id) succeeded, within the invalidation TTL id
\* is in no active list and IsSessionInvalidated(id) is true, whatever was
\* called since.
C8_StaysInvalidated ==
    \A id \in Ids :
        WithinTTL(id) =>
            /\ Invalidated(id)
            /\ \A u \in Users : \A l \in Listings(u) :
                  \A i \in 1..Len(l) : l[i] /= id

\* C9: after a successful InvalidateSession(id) for an id the store had no
\* record of, IsSessionInvalidated(id) is true, in every wiring.
C9_LedgerIndependentOfStore ==
    (last.op = "InvalidateSession" /\ last.outcome = "ok"
                                   /\ ~last.HadRecord) =>
        Invalidated(last.id)

\* C10: an id on which InvalidateSession was never called is not reported
\* as invalidated, registered or not, expired or not.  (In this
\* specification every InvalidateSession call that returns reaches Set, so
\* the ids never invalidated are those with setAt NULL.)
C10_NeverInvalidatedIsFalse ==
    h.invalidated /= "nil" =>
        \A id \in Ids : setAt[id] = NULL => ~Invalidated(id)

\* IsSessionInvalidated answered false for a registered session that has
\* expired and was never invalidated.
C10_Witness ==
    /\ last.op = "IsSessionInvalidated"
    /\ last.outcome = "ok"
    /\ ~last.Invalidated
    /\ setAt[last.id] = NULL
    /\ Present(sessions, last.id)
    /\ ~(now < ExpiresAt(sessions[last.id]))

\* Processes p and q both registered a session for u under the limit N > 0,
\* with different ids, each after reading the same N-1 active sessions,
\* and no other call interfered; the sessions live for a second or more.
Race(p, q, u) ==
    /\ p /= q
    /\ concurrentLimit > 0
    /\ Seconds(config.SessionTTL) > 0
    /\ calls[p].pc = "admitted" /\ calls[q].pc = "admitted"
    /\ calls[p].user = u /\ calls[q].user = u
    /\ calls[p].id /= calls[q].id
    /\ Len(calls[p].active) = concurrentLimit - 1
    /\ Range(calls[p].active) = Range(calls[q].active)
    /\ {calls[p].id, calls[q].id} \cap Range(calls[p].active) = {}
    /\ \A r \in Procs \ {p, q} :
          \/ calls[r].pc = "idle"
          \/ /\ calls[r].pc = "admitted"
             /\ calls[r].user = u
             /\ calls[r].id \in Range(calls[p].active)

\* C5: two concurrent RegisterSession calls for one user, with different
\* ids and the limit N > 0, that both read the N-1 active sessions before
\* either saves are both admitted and leave N+1 active sessions.
C5_RaceExceedsLimit ==
    /\ \A p \in Procs :
          (calls[p].pc /= "idle" /\ concurrentLimit > 0
                                 /\ Len(calls[p].active) < concurrentLimit) =>
              calls[p].pc \in {"read", "admitted"}
    /\ \A p, q \in Procs : \A u \in Users :
          Race(p, q, u) => ActiveCounts(u) = {concurrentLimit + 1}

\* Both calls of a race were admitted and the limit is exceeded by one.
C5_Witness ==
    \E p, q \in Procs : \E u \in Users :
        Race(p, q, u) /\ ActiveCounts(u) = {concurrentLimit + 1}

\* C11: when SessionStore.Delete fails inside InvalidateSession(id), the
\* call returns that error, InvalidationCache.Set is not called (the cache
\* and the record of Set calls are unchanged) and IsSessionInvalidated keeps
\* the value it had, for id and for every other id.
C11_DeleteFailureSkipsCache ==
    [][(last'.op = "InvalidateSession" /\ last'.outcome = "Delete error") =>
           /\ entries' = entries
           /\ sessions' = sessions
           /\ byUser' = byUser
           /\ setAt' = setAt
           /\ \A id \in Ids : Invalidated(id)' = Invalidated(id)]_vars

\* Delete failed for an active session, which is still not invalidated.
C11_Witness ==
    /\ last.op = "InvalidateSession"
    /\ last.outcome = "Delete error"
    /\ Present(sessions, last.id)
    /\ sessions[last.id].InvalidatedAt = NULL
    /\ ~Invalidated(last.id)

\* C12: a RegisterSession call that returns an error, of GetActiveByUser or
\* of Save, leaves the store and the cache as they were: every ListSessions
\* result is what it was before the call, so the new id is visible in none
\* it was not visible in.
C12_FailedRegistrationHasNoEffect ==
    [][(last'.op = "RegisterSession"
            /\ last'.outcome \in {"GetActiveByUser error", "Save error"}) =>
           /\ sessions' = sessions
           /\ byUser' = byUser
           /\ entries' = entries
           /\ \A u \in Users : Listings(u)' = Listings(u)]_vars

\* Save failed for a new id while another session was active.
C12_Witness ==
    /\ last.op = "RegisterSession"
    /\ last.outcome = "Save error"
    /\ ~Present(sessions, last.id)
    /\ \E u \in Users : \E l \in Listings(u) : Len(l) > 0

\* The stored sessions of u that have neither expired nor been invalidated,
\* and those of them with the greatest createdAt.
ActiveOf(u) == {sessions[id] : id \in {i \in Ids : Live(u, i)}}

Newest(u) ==
    {s \in ActiveOf(u) : \A t \in ActiveOf(u) : s.CreatedAt >= t.CreatedAt}

\* C13: an admitted RegisterSession for a user without active sessions is
\* not flagged; for a user with active sessions it is flagged exactly when
\* IsNewLocation(location of an active session with the greatest createdAt,
\* supplied location, threshold) is true.
C13_FlaggedAgainstNewest ==
    [][(last'.op = "RegisterSession" /\ last'.HasSession) =>
           /\ ActiveOf(last'.user) = {} => ~last'.IsNewLocation
           /\ ActiveOf(last'.user) /= {} =>
                 \E s \in Newest(last'.user) :
                    last'.IsNewLocation =
                        IsNewLocation(PrevLocation(s), supplied'[last'.id],
                                      config.NewLocationThresholdKM)]_vars

\* C14: when RegisterSession flags a new location, PreviousLocation is the
\* LocationInfo supplied to the call that registered the user's most recent
\* active session, field for field.
C14_PreviousLocationVerbatim ==
    [][(last'.op = "RegisterSession" /\ last'.IsNewLocation) =>
           \E s \in Newest(last'.user) :
              last'.PreviousLocation = supplied[s.SessionID]]_vars

\* C15: the ActiveSessions list of an admitted RegisterSession(u, id) has
\* the ids, in the order, of a ListSessions(u) result in the state the call
\* leaves.
C15_ResultIsPostState ==
    (last.op = "RegisterSession" /\ last.HasSession) =>
        last.ActiveSessions \in Listings(last.user)

\* C16: every list GetActiveByUser returns is sorted by createdAt
\* descending, so its first element has the greatest createdAt of the list.
C16_SortedNewestFirst ==
    \A u \in Users :
       \A a \in GetActiveByUser(h.sessions, sessions, byUser, u, now) :
          /\ \A i \in 1..(Len(a) - 1) : a[i].CreatedAt >= a[i + 1].CreatedAt
          /\ \A i \in 1..Len(a) : a[1].CreatedAt >= a[i].CreatedAt

\* The in-memory store returns two sessions with different createdAt.
C16_Witness ==
    /\ h.sessions = "memory"
    /\ \E u \in Users :
          \E a \in GetActiveByUser(h.sessions, sessions, byUser, u, now) :
             Len(a) >= 2 /\ a[1].CreatedAt > a[2].CreatedAt

\* C17: GetActiveByUser(u) returns, once each, exactly the stored sessions
\* of u that have now < createdAt + ttlSeconds and were not deleted.
C17_ExactlyTheActive ==
    \A u \in Users :
       \A a \in GetActiveByUser(h.sessions, sessions, byUser, u, now) :
          /\ Range(a) = ActiveOf(u)
          /\ Len(a) = Cardinality(ActiveOf(u))

Created(s) ==
    <<s.UserID, s.CreatedAt, s.TTLSeconds, s.DeviceIP, s.LocCity,
      s.LocCountry, s.LocLat, s.LocLng>>

\* C19: no step changes the userID, createdAt, ttlSeconds, device or
\* location fields of a session record that exists before and after it.
C19_NeverMutated ==
    [][\A id \in Ids :
          (Present(sessions, id) /\ Present(sessions', id)) =>
              Created(sessions'[id]) = Created(sessions[id])]_vars

\* C20: for every session s RegisterSession can build, Save(s) leaves a
\* record under s.SessionID that equals s, whatever record was there, and a
\* second Save(s) changes nothing.
C20_SaveIsIdempotentUpsert ==
    \A u \in Users : \A id \in SeqIds :
       LET s == BuildSession(u, id, Device0, Loc0, now)
           once == Save(h.sessions, sessions, byUser, s)
           twice == Save(h.sessions, once.sessions, once.byUser, s)
       IN /\ once.sessions[id] = s
          /\ twice = once

\* C21: Delete(id) for an id without a record leaves the store as it is, so
\* every user's active list is the same after it, and an InvalidateSession
\* call for such an id does not end with the error of Delete.
C21_DeleteOfUnknownIsNoOp ==
    /\ \A id \in Ids :
          ~Present(sessions, id) =>
              LET st == Delete(h.sessions, sessions, byUser, id, now)
              IN /\ st.sessions = sessions
                 /\ st.byUser = byUser
                 /\ \A u \in Users :
                       GetActiveByUser(h.sessions, st.sessions, st.byUser,
                                       u, now)
                           = GetActiveByUser(h.sessions, sessions, byUser,
                                             u, now)
    /\ (last.op = "InvalidateSession" /\ ~last.HadRecord) =>
           last.outcome /= "Delete error"

\* InvalidateSession returned without error for an id the store has no
\* record of, while another session is active.
C21_Witness ==
    /\ last.op = "InvalidateSession"
    /\ last.outcome = "ok"
    /\ ~last.HadRecord
    /\ ~Present(sessions, last.id)
    /\ \E u \in Users : \E l \in Listings(u) : Len(l) > 0

\* C23: when InvalidationTTL is left unset in the Config, the effective
\* InvalidationTTL equals the effective SessionTTL, and so is not below it.
C23_InvalidationTTLFollowsSessionTTL ==
    cfg.InvalidationTTL <= 0 =>
        /\ config.InvalidationTTL = config.SessionTTL
        /\ config.InvalidationTTL >= config.SessionTTL

\* C24: after New the manager has a session store and an invalidation
\* cache, and no InvalidateSession or IsSessionInvalidated call runs into a
\* missing cache.
C24_CacheNeverMissing ==
    /\ h.sessions /= "nil"
    /\ h.invalidated /= "nil"
    /\ last.outcome /= "panic"

\* C22: every Close call, on the store, on the cache or on the manager, the
\* first or a repeated one, returns without error and without panic.
C22_CloseIsIdempotent ==
    last.op \in {"SessionStore.Close", "InvalidationCache.Close", "Close"} =>
        last.outcome = "ok"

\* The distance of the two locations of the latest direct call.
GeoDistance ==
    HaversineDistance(geo.prev.Latitude, geo.prev.Longitude,
                      geo.curr.Latitude, geo.curr.Longitude)

\* C25: when prev or curr has latitude 0 and longitude 0, IsNewLocation is
\* (city differs or country differs), whatever the threshold, the other
\* coordinates and the IPs; a location with one coordinate 0 has
\* coordinates: the result is then the comparison of the distance.
C25_UnknownCoordinatesCompareByCity ==
    geo.op = "IsNewLocation" =>
        IF \/ (geo.prev.Latitude = 0 /\ geo.prev.Longitude = 0)
           \/ (geo.curr.Latitude = 0 /\ geo.curr.Longitude = 0)
        THEN geo.result = (geo.prev.City /= geo.curr.City
                               \/ geo.prev.Country /= geo.curr.Country)
        ELSE geo.result = (GeoDistance > geo.thresholdKM)

\* A location with one coordinate 0 in the same city as a location further
\* away than the threshold is a new location.
C25_Witness ==
    /\ geo.op = "IsNewLocation"
    /\ geo.prev.Latitude = 0 /\ geo.prev.Longitude /= 0
    /\ geo.curr.Latitude = 0 /\ geo.curr.Longitude /= 0
    /\ geo.prev.City = geo.curr.City
    /\ geo.result

\* C26: with coordinates on both sides IsNewLocation is true exactly when
\* the distance is greater than the threshold: false at a distance equal to
\* the threshold, true at every distance above 0 when the threshold is 0.
C26_StrictlyGreater ==
    (/\ geo.op = "IsNewLocation"
     /\ ~(geo.prev.Latitude = 0 /\ geo.prev.Longitude = 0)
     /\ ~(geo.curr.Latitude = 0 /\ geo.curr.Longitude = 0)) =>
        /\ geo.result <=> GeoDistance > geo.thresholdKM
        /\ GeoDistance = geo.thresholdKM => ~geo.result
        /\ (geo.thresholdKM = 0 /\ GeoDistance > 0) => geo.result

\* Two locations at a distance above 0 that equals the threshold are not a
\* new location.
C26_Witness ==
    /\ geo.op = "IsNewLocation"
    /\ geo.prev.Latitude /= 0 /\ geo.curr.Latitude /= 0
    /\ geo.thresholdKM > 0
    /\ GeoDistance = geo.thresholdKM
    /\ ~geo.result

\* C27: IsNewLocation(L, L, threshold) is false for every location L, with
\* or without coordinates, and every threshold from 0 up.
C27_SameLocationIsNotNew ==
    (geo.op = "IsNewLocation" /\ geo.prev = geo.curr) => ~geo.result

\* A location was compared with itself under the threshold 0.
C27_Witness ==
    /\ geo.op = "IsNewLocation"
    /\ geo.prev = geo.curr
    /\ geo.thresholdKM = 0
    /\ ~geo.result

C29_ConfiguredThresholdIsUsed ==
    [][(/\ last'.op = "RegisterSession"
        /\ last'.HasSession
        /\ ActiveOf(last'.user) /= {}
        /\ ~NoCoordinates(supplied'[last'.id])
        /\ \A s \in Newest(last'.user) : ~NoCoordinates(PrevLocation(s))) =>
           \E s \in Newest(last'.user) :
              last'.IsNewLocation <=>
                  HaversineDistance(s.LocLat, s.LocLng,
                                    supplied'[last'.id].Latitude,
                                    supplied'[last'.id].Longitude)
                      > cfg.NewLocationThresholdKM]_vars

\* C30: when a RegisterSession of user u was rejected for the limit, the
\* next call invalidated one of u's active sessions or let one expire, and
\* the call after that is a RegisterSession of u with a fresh id under the
\* same limit, then that registration is admitted.
C30_OnlyActiveSessionsCount ==
    [][(/\ last.freed /= NoUser
        /\ last'.op = "RegisterSession"
        /\ last'.user = last.freed
        /\ Fresh(last'.id)
        /\ last'.outcome = "ok") =>
           last'.HasSession /\ ~last'.LimitExceeded]_vars

\* C31: ListSessions(u) for a user without active sessions (never
\* registered, all expired or all invalidated) returns the empty sequence
\* and no error, and leaves the store and the cache as they were.
C31_NoSessionsListsEmpty ==
    [][(/\ last'.op = "ListSessions"
        /\ last'.outcome = "ok"
        /\ ActiveOf(last'.user) = {}) =>
           /\ last'.ActiveSessions = <<>>
           /\ UNCHANGED <<sessions, byUser, entries>>]_vars

\* C32: concurrent Save, Delete and GetActiveByUser calls of the in-memory
\* store each take effect as a whole: whenever no Save or Delete is under
\* way the session map and the user index are those of the calls applied one
\* after the other in the order they took the lock, and a GetActiveByUser
\* returns a list of that store, never one of a half applied Save or Delete.
C32_StoreCallsAreAtomic ==
    [][/\ (\A q \in Procs : ~Writing(q)') =>
              /\ sessions' = lin'.sessions
              /\ byUser' = lin'.byUser
       /\ \A p \in Procs :
            (Reading(p) /\ ops'[p].pc = "done") =>
                ops'[p].result \in
                    {IdsOf(a) : a \in MemGetActiveByUser(lin.sessions,
                                                         lin.byUser,
                                                         ops[p].user, now)}]_vars

\* All three processes have finished a call, among them a Save, a Delete
\* that found its session and a GetActiveByUser that returned a session.
C32_Witness ==
    /\ \A p \in Procs : ops[p].pc = "done"
    /\ \E p \in Procs, q \in Procs :
          /\ ops[p].op = "Save"
          /\ ops[q].op = "Delete"
          /\ ops[q].id = ops[p].id
          /\ ~Present(sessions, ops[p].id)
    /\ \E p \in Procs : ops[p].op = "GetActiveByUser" /\ ops[p].result /= <<>>

\* C33: in every result RegisterSession returns without error,
\* PreviousLocation is set exactly when IsNewLocation is true; it is not set
\* when LimitExceeded is true or when the user had no active session.
C33_PreviousLocationIffNewLocation ==
    [][(last'.op = "RegisterSession" /\ last'.outcome = "ok") =>
           /\ last'.PreviousLocation /= NoLocation <=> last'.IsNewLocation
           /\ last'.LimitExceeded => last'.PreviousLocation = NoLocation
           /\ ActiveOf(last'.user) = {} =>
                  last'.PreviousLocation = NoLocation]_vars

\* C34: after any sequence of Save and Delete calls on the in-memory store,
\* every session GetActiveByUser(u) returns has UserID = u, and no session id
\* is returned for two users.
C34_IndexAgreesWithSessions ==
    (\A q \in Procs : ~Writing(q)) =>
        /\ \A u \in Users :
             \A a \in MemGetActiveByUser(sessions, byUser, u, now) :
                \A i \in 1..Len(a) : a[i].UserID = u
        /\ \A u \in Users : \A v \in Users \ {u} :
             \A a \in MemGetActiveByUser(sessions, byUser, u, now),
                b \in MemGetActiveByUser(sessions, byUser, v, now) :
                Range(IdsOf(a)) \cap Range(IdsOf(b)) = {}

\* C35: an InvalidateSession(id) that returns an error, from the Delete of
\* the store or from the Set of the cache, leaves every user's ListSessions
\* result and the value of IsSessionInvalidated(id) as they were.
C35_InvalidateIsAllOrNothing ==
    [][(/\ last'.op = "InvalidateSession"
        /\ last'.outcome \in {"Delete error", "Set error"}) =>
           /\ \A u \in Users : Listings(u)' = Listings(u)
           /\ \A id \in Ids : last'.id = id =>
                                  Invalidated(id)' = Invalidated(id)]_vars

\* C36: RegisterSession(u, id) leaves the ListSessions result of every other
\* user as it was, also when id is an active session of that user.
C36_OtherUsersUntouched ==
    [][(last'.op = "RegisterSession" /\ last'.outcome = "ok") =>
           \A v \in Users \ {last'.user} : Listings(v)' = Listings(v)]_vars

\* C37: at every instant a stored session that was not deleted is in the
\* GetActiveByUser list of its user exactly when its IsExpired() is false,
\* the instant now = createdAt + ttlSeconds included.
C37_ExpiryJudgedConsistently ==
    \A id \in Ids :
       (Present(sessions, id) /\ sessions[id].InvalidatedAt = NULL) =>
           \A a \in GetActiveByUser(h.sessions, sessions, byUser,
                                    sessions[id].UserID, now) :
              id \in Range(IdsOf(a)) <=> ~IsExpired(sessions[id], now)

\* C38: for every configured SessionTTL above 0, durations below one second
\* included, the id of a session RegisterSession(u, id) returns is in the
\* ListSessions(u) result of the state the call leaves.
C38_AdmittedIsVisible ==
    [][(/\ last'.op = "RegisterSession"
        /\ last'.HasSession
        /\ cfg.SessionTTL > 0) =>
           \A u \in Users : last'.user = u =>
              \A l \in Listings(u)' : last'.id \in Range(l)]_vars

\* C39: with any number of RegisterSession calls in flight, all under the
\* same limit N > 0, a user never has more than N + 1 active sessions.
C39_RaceBoundedByOne ==
    concurrentLimit > 0 =>
        \A u \in Users : Cardinality(ActiveOf(u)) <= concurrentLimit + 1

====
